---- MODULE Spec2Model ----
(***************************************************************************)
(* Cache-eviction policies of lcr.py: CachePolicy (accounting base), LFU,  *)
(* LRU and the adaptive hybrid LCR, together with the traces of LCRTest.   *)
(*                                                                         *)
(* Python floats (IEEE-754 binary64, round-to-nearest-even) are modelled   *)
(* bit-exactly: a float is a sign, a 53-bit mantissa held as a little-     *)
(* endian sequence of 15-bit limbs, and a binary exponent.  Exponents are  *)
(* not range-limited: no reachable value leaves the normal range.          *)
(***************************************************************************)
EXTENDS Integers, Sequences, FiniteSets, TLC

\* ------------------------------------------------------------------------
\* Natural numbers of arbitrary size: little-endian limb sequences, no
\* leading (high) zero limb; zero is <<>>.
\* ------------------------------------------------------------------------
LimbBits == 15
LimbBase == 32768

RECURSIVE Pow2(_)
Pow2(n) == IF n = 0 THEN 1 ELSE 2 * Pow2(n - 1)

Limb(a, i) == IF i >= 1 /\ i <= Len(a) THEN a[i] ELSE 0

RECURSIVE BTrim(_)
BTrim(a) ==
  IF a = <<>> THEN <<>>
  ELSE IF a[Len(a)] = 0 THEN BTrim(SubSeq(a, 1, Len(a) - 1))
  ELSE a

RECURSIVE BFromInt(_)
BFromInt(n) ==
  IF n = 0 THEN <<>> ELSE <<n % LimbBase>> \o BFromInt(n \div LimbBase)

RECURSIVE BAddFrom(_, _, _, _)
BAddFrom(a, b, i, c) ==
  IF i > Len(a) /\ i > Len(b)
  THEN (IF c = 0 THEN <<>> ELSE <<c>>)
  ELSE LET s == Limb(a, i) + Limb(b, i) + c
       IN  <<s % LimbBase>> \o BAddFrom(a, b, i + 1, s \div LimbBase)

BAdd(a, b) == BAddFrom(a, b, 1, 0)

\* a - b for a >= b
RECURSIVE BSubFrom(_, _, _, _)
BSubFrom(a, b, i, c) ==
  IF i > Len(a) THEN <<>>
  ELSE LET s == Limb(a, i) - Limb(b, i) - c
       IN  IF s < 0
           THEN <<s + LimbBase>> \o BSubFrom(a, b, i + 1, 1)
           ELSE <<s>> \o BSubFrom(a, b, i + 1, 0)

BSub(a, b) == BTrim(BSubFrom(a, b, 1, 0))

\* -1, 0, 1 as a < b, a = b, a > b
RECURSIVE BCmpFrom(_, _, _)
BCmpFrom(a, b, i) ==
  IF i = 0 THEN 0
  ELSE IF a[i] < b[i] THEN -1
  ELSE IF a[i] > b[i] THEN 1
  ELSE BCmpFrom(a, b, i - 1)

BCmp(a, b) ==
  IF Len(a) < Len(b) THEN -1
  ELSE IF Len(a) > Len(b) THEN 1
  ELSE BCmpFrom(a, b, Len(a))

\* a * d for one limb d
RECURSIVE BMulLimbFrom(_, _, _, _)
BMulLimbFrom(a, d, i, c) ==
  IF i > Len(a)
  THEN (IF c = 0 THEN <<>> ELSE <<c>>)
  ELSE LET s == a[i] * d + c
       IN  <<s % LimbBase>> \o BMulLimbFrom(a, d, i + 1, s \div LimbBase)

BMulLimb(a, d) == IF d = 0 THEN <<>> ELSE BMulLimbFrom(a, d, 1, 0)

\* a * LimbBase^q
BShlLimbs(a, q) == IF a = <<>> THEN <<>> ELSE [i \in 1..q |-> 0] \o a

RECURSIVE BMulFrom(_, _, _)
BMulFrom(a, b, i) ==
  IF i > Len(b) THEN <<>>
  ELSE BAdd(BShlLimbs(BMulLimb(a, b[i]), i - 1), BMulFrom(a, b, i + 1))

BMul(a, b) == BMulFrom(a, b, 1)

\* a * 2^k
BShl(a, k) ==
  BShlLimbs(BMulLimb(a, Pow2(k % LimbBits)), k \div LimbBits)

\* floor(a / 2^k)
BShr(a, k) ==
  LET q == k \div LimbBits
      r == k % LimbBits
      lo == Pow2(r)
      hi == Pow2(LimbBits - r)
  IN  IF q >= Len(a) THEN <<>>
      ELSE BTrim([i \in 1..(Len(a) - q) |->
                   (Limb(a, i + q) \div lo) + (Limb(a, i + q + 1) % lo) * hi])

RECURSIVE IntBitLen(_)
IntBitLen(n) == IF n = 0 THEN 0 ELSE 1 + IntBitLen(n \div 2)

BBitLen(a) ==
  IF a = <<>> THEN 0 ELSE (Len(a) - 1) * LimbBits + IntBitLen(a[Len(a)])

\* bit k (k = 0 is the lowest) of a
BBit(a, k) == (Limb(a, (k \div LimbBits) + 1) \div Pow2(k % LimbBits)) % 2

\* TRUE iff some bit below bit k of a is set
BLowNonzero(a, k) ==
  \/ \E i \in 1..(k \div LimbBits) : Limb(a, i) # 0
  \/ Limb(a, (k \div LimbBits) + 1) % Pow2(k % LimbBits) # 0

\* Long division in base LimbBase.  BDivDigit(r, d) is floor(r / d) for
\* r < d * LimbBase and d with its top limb >= LimbBase / 2: the estimate
\* from the leading limbs is at least the digit, and is lowered until it fits.
RECURSIVE BDivFit(_, _, _)
BDivFit(r, d, q) ==
  IF BCmp(BMulLimb(d, q), r) = 1 THEN BDivFit(r, d, q - 1) ELSE q

BDivDigit(r, d) ==
  LET n == Len(d)
      top == Limb(r, n + 1) * LimbBase + Limb(r, n)
      est == top \div d[n]
  IN  BDivFit(r, d, IF est > LimbBase - 1 THEN LimbBase - 1 ELSE est)

\* [q |-> floor(a / d), r |-> a mod d], digits of a taken from the top
RECURSIVE BDivModFrom(_, _, _, _, _)
BDivModFrom(a, d, i, q, r) ==
  IF i = 0 THEN [q |-> BTrim(q), r |-> r]
  ELSE LET r1 == BTrim(<<a[i]>> \o r)
           dg == BDivDigit(r1, d)
       IN  BDivModFrom(a, d, i - 1, <<dg>> \o q, BSub(r1, BMulLimb(d, dg)))

BDivMod(a, d) == BDivModFrom(a, d, Len(a), <<>>, <<>>)

\* ------------------------------------------------------------------------
\* Python float: [neg, m, e] is (-1)^neg * m * 2^e with 2^52 <= m < 2^53,
\* or m = <<>> for 0.0.
\* ------------------------------------------------------------------------
MantBits == 53

FZero == [neg |-> FALSE, m |-> <<>>, e |-> 0]

\* Round n * 2^e (plus a positive amount below one unit of n iff sticky)
\* to the nearest float, ties to even.
FRound(neg, n, e, sticky) ==
  LET len == BBitLen(n)
  IN  IF len = 0 THEN FZero
      ELSE IF len <= MantBits
      THEN [neg |-> neg, m |-> BShl(n, MantBits - len), e |-> e - (MantBits - len)]
      ELSE LET sh    == len - MantBits
               q     == BShr(n, sh)
               guard == BBit(n, sh - 1) = 1
               rest  == sticky \/ BLowNonzero(n, sh - 1)
               up    == guard /\ (rest \/ BBit(q, 0) = 1)
               m1    == IF up THEN BAdd(q, <<1>>) ELSE q
           IN  IF BBitLen(m1) > MantBits
               THEN [neg |-> neg, m |-> BShr(m1, 1), e |-> e + sh + 1]
               ELSE [neg |-> neg, m |-> m1, e |-> e + sh]

\* float(n) for an int n >= 0
FromInt(n) == FRound(FALSE, BFromInt(n), 0, FALSE)

FNeg(a) == IF a.m = <<>> THEN a ELSE [a EXCEPT !.neg = ~a.neg]

\* -1, 0, 1 as |a| < |b|, |a| = |b|, |a| > |b|
FMagCmp(a, b) ==
  IF a.m = <<>> THEN (IF b.m = <<>> THEN 0 ELSE -1)
  ELSE IF b.m = <<>> THEN 1
  ELSE IF a.e < b.e THEN -1
  ELSE IF a.e > b.e THEN 1
  ELSE BCmp(a.m, b.m)

FCmp(a, b) ==
  IF a.neg /\ ~b.neg THEN -1
  ELSE IF ~a.neg /\ b.neg THEN 1
  ELSE IF a.neg THEN FMagCmp(b, a)
  ELSE FMagCmp(a, b)

FLess(a, b) == FCmp(a, b) = -1
FLeq(a, b)  == FCmp(a, b) # 1

\* Operands further apart than this many bits: the small one only rounds.
FarApart == 60

\* |x| + |y| with the sign neg, for |x| >= |y|
FMagAdd(neg, x, y) ==
  IF y.m = <<>> THEN [x EXCEPT !.neg = neg /\ x.m # <<>>]
  ELSE LET d == x.e - y.e
       IN  IF d > FarApart
           THEN FRound(neg, BShl(x.m, 2), x.e - 2, TRUE)
           ELSE FRound(neg, BAdd(BShl(x.m, d), y.m), y.e, FALSE)

\* |x| - |y| with the sign neg, for |x| >= |y|
FMagSub(neg, x, y) ==
  IF y.m = <<>> THEN [x EXCEPT !.neg = neg /\ x.m # <<>>]
  ELSE LET d == x.e - y.e
       IN  IF d > FarApart
           THEN FRound(neg, BSub(BShl(x.m, 2), <<1>>), x.e - 2, TRUE)
           ELSE FRound(neg, BSub(BShl(x.m, d), y.m), y.e, FALSE)

FAdd(a, b) ==
  LET big   == IF FMagCmp(a, b) = -1 THEN b ELSE a
      small == IF FMagCmp(a, b) = -1 THEN a ELSE b
  IN  IF a.neg = b.neg THEN FMagAdd(big.neg, big, small)
      ELSE FMagSub(big.neg, big, small)

FSub(a, b) == FAdd(a, FNeg(b))

FMul(a, b) == FRound(a.neg # b.neg, BMul(a.m, b.m), a.e + b.e, FALSE)

\* a / b for b # 0.0.  A power of two only moves the exponent; otherwise
\* the 53-bit mantissas are scaled so that the divisor fills four limbs and
\* the quotient has at least 60 bits.
DivScale == 7
DivBits  == 60

FDiv(a, b) ==
  IF a.m = <<>> THEN FZero
  ELSE IF b.m = <<0, 0, 0, 128>>
  THEN [neg |-> a.neg # b.neg, m |-> a.m, e |-> a.e - b.e - (MantBits - 1)]
  ELSE LET dm == BDivMod(BShl(a.m, DivScale + DivBits), BShl(b.m, DivScale))
       IN  FRound(a.neg # b.neg, dm.q, a.e - b.e - DivBits, dm.r # <<>>)

\* 0.5 and 1.0
FHalf == [neg |-> FALSE, m |-> <<0, 0, 0, 128>>, e |-> -53]
FOne  == [neg |-> FALSE, m |-> <<0, 0, 0, 128>>, e |-> -52]

\* math.exp(0.45) = 0x1.917ce84a993b5p+0
FExpLearningRate == [neg |-> FALSE, m |-> <<5045, 2387, 24378, 200>>, e |-> -52]

\* ------------------------------------------------------------------------
\* Values and containers
\* ------------------------------------------------------------------------
\* Python's None: returned by access when nothing is evicted
None == "None"

\* if maybe_evicted: None and the empty string are false
Truthy(v) == v # None /\ v # ""

\* list.remove(key): drops the first occurrence, ValueError swallowed
RECURSIVE ListRemove(_, _)
ListRemove(l, key) ==
  IF l = <<>> THEN <<>>
  ELSE IF Head(l) = key THEN Tail(l)
  ELSE <<Head(l)>> \o ListRemove(Tail(l), key)

\* list.insert(0, key)
ListInsertHead(l, key) == <<key>> \o l

\* list after list.pop(): the last element is removed
ListPop(l) == SubSeq(l, 1, Len(l) - 1)

ListContains(l, key) == \E i \in 1..Len(l) : l[i] = key

\* collections.Counter as a dict in insertion order: a sequence of items
\* [key, count].  Reading a missing key yields 0 and inserts nothing.
CounterIndex(c, key) ==
  IF \E i \in 1..Len(c) : c[i].key = key
  THEN CHOOSE i \in 1..Len(c) : c[i].key = key
  ELSE 0

CounterGet(c, key) ==
  IF CounterIndex(c, key) = 0 THEN 0 ELSE c[CounterIndex(c, key)].count

\* counter[key] += 1: an existing item keeps its place, a new one goes last
CounterIncrement(c, key) ==
  IF CounterIndex(c, key) = 0
  THEN Append(c, [key |-> key, count |-> 1])
  ELSE [c EXCEPT ![CounterIndex(c, key)].count = @ + 1]

\* del counter[key]
CounterDelete(c, key) == SelectSeq(c, LAMBDA it : it.key # key)

CounterKeys(c) == {c[i].key : i \in 1..Len(c)}

\* MinItem taking the last of the items tied at the smallest count
MinItem_LastTied(c) ==
  LET i == CHOOSE j \in 1..Len(c) :
             /\ \A k \in 1..Len(c) : c[j].count <= c[k].count
             /\ \A k \in (j + 1)..Len(c) : c[k].count > c[j].count
  IN  c[i]

\* min(counter.items(), key=itemgetter(1)): the first item, in iteration
\* order, whose count is the smallest
MinItem(c) ==
  LET i == CHOOSE j \in 1..Len(c) :
             /\ \A k \in 1..Len(c) : c[j].count <= c[k].count
             /\ \A k \in 1..(j - 1) : c[k].count > c[j].count
  IN  c[i]

\* ------------------------------------------------------------------------
\* CachePolicy
\* ------------------------------------------------------------------------
\* CachePolicy_init with the assertion written budget >= 0
CachePolicy_init_ZeroAllowed(budget) ==
  [ok |-> budget >= 0,
   self |-> [budget |-> budget, hits |-> 0, accesses |-> 0]]

\* __init__: assert budget > 0, then the three fields.  ok = FALSE stands
\* for the AssertionError, which leaves no instance.
CachePolicy_init(budget) ==
  [ok |-> budget > 0,
   self |-> [budget |-> budget, hits |-> 0, accesses |-> 0]]

\* hitrate: float(self.hits) * 100 / self.accesses
hitrate(self) ==
  IF self.accesses = 0
  THEN [raised |-> "ZeroDivisionError", value |-> FZero]
  ELSE [raised |-> None,
        value  |-> FDiv(FMul(FromInt(self.hits), FromInt(100)),
                        FromInt(self.accesses))]

\* ------------------------------------------------------------------------
\* LFU
\* ------------------------------------------------------------------------
LFU_init(budget) ==
  LET base == CachePolicy_init(budget)
  IN  [ok |-> base.ok,
       self |-> [budget |-> base.self.budget, hits |-> base.self.hits,
                 accesses |-> base.self.accesses,
                 frequency_counter |-> <<>>]]

LFU_contains(self, item) == CounterGet(self.frequency_counter, item) > 0

\* LFU_access counting every access as a hit
LFU_access_AlwaysHit(self, key) ==
  LET fc   == CounterIncrement(self.frequency_counter, key)
      s1   == [self EXCEPT !.accesses = @ + 1, !.hits = @ + 1,
                           !.frequency_counter = fc]
  IN  IF Len(fc) > self.budget
      THEN [self |-> [s1 EXCEPT !.frequency_counter =
                                  CounterDelete(fc, MinItem(fc).key)],
            ret  |-> MinItem(fc).key]
      ELSE [self |-> s1, ret |-> None]

\* [self |-> the instance after the call, ret |-> the returned value]
LFU_access(self, key) ==
  LET hits == IF LFU_contains(self, key) THEN self.hits + 1 ELSE self.hits
      fc   == CounterIncrement(self.frequency_counter, key)
      s1   == [self EXCEPT !.accesses = @ + 1, !.hits = hits,
                           !.frequency_counter = fc]
  IN  IF Len(fc) > self.budget
      THEN [self |-> [s1 EXCEPT !.frequency_counter =
                                  CounterDelete(fc, MinItem(fc).key)],
            ret  |-> MinItem(fc).key]
      ELSE [self |-> s1, ret |-> None]

\* ------------------------------------------------------------------------
\* LRU
\* ------------------------------------------------------------------------
LRU_init(budget) ==
  LET base == CachePolicy_init(budget)
  IN  [ok |-> base.ok,
       self |-> [budget |-> base.self.budget, hits |-> base.self.hits,
                 accesses |-> base.self.accesses,
                 recency_list |-> <<>>]]

LRU_contains(self, item) == ListContains(self.recency_list, item)

\* LRU_access leaving a key that is already in the list where it is
LRU_access_NoMove(self, key) ==
  LET hits == IF LRU_contains(self, key) THEN self.hits + 1 ELSE self.hits
      rl   == IF LRU_contains(self, key) THEN self.recency_list
              ELSE ListInsertHead(self.recency_list, key)
      s1   == [self EXCEPT !.accesses = @ + 1, !.hits = hits,
                           !.recency_list = rl]
  IN  IF Len(rl) > self.budget
      THEN [self |-> [s1 EXCEPT !.recency_list = ListPop(rl)],
            ret  |-> rl[Len(rl)]]
      ELSE [self |-> s1, ret |-> None]

\* [self |-> the instance after the call, ret |-> the returned value]
LRU_access(self, key) ==
  LET hits == IF LRU_contains(self, key) THEN self.hits + 1 ELSE self.hits
      rl   == ListInsertHead(ListRemove(self.recency_list, key), key)
      s1   == [self EXCEPT !.accesses = @ + 1, !.hits = hits,
                           !.recency_list = rl]
  IN  IF Len(rl) > self.budget
      THEN [self |-> [s1 EXCEPT !.recency_list = ListPop(rl)],
            ret  |-> rl[Len(rl)]]
      ELSE [self |-> s1, ret |-> None]

\* ------------------------------------------------------------------------
\* LCR
\* ------------------------------------------------------------------------
LCR_init(budget) ==
  LET base == CachePolicy_init(budget)
  IN  [ok |-> base.ok /\ LFU_init(budget).ok /\ LRU_init(budget).ok,
       self |-> [budget |-> base.self.budget, hits |-> base.self.hits,
                 accesses |-> base.self.accesses,
                 history_lfu |-> <<>>, history_lru |-> <<>>,
                 lfu_policy |-> LFU_init(budget).self,
                 lru_policy |-> LRU_init(budget).self,
                 w_lfu |-> FHalf, w_lru |-> FHalf]]

\* LCR_contains asking the frequency arm only
LCR_contains_OnlyLFU(self, key) == LFU_contains(self.lfu_policy, key)

LCR_contains(self, key) ==
  LFU_contains(self.lfu_policy, key) \/ LRU_contains(self.lru_policy, key)

\* SetWeights without line 106: w_lfu keeps its value
SetWeights_StaleLFU(self, w_lru) == [self EXCEPT !.w_lru = w_lru]

\* w_lru := w_lru / (w_lru + w_lfu); w_lfu := 1 - w_lru
SetWeights(self, w_lru) ==
  [self EXCEPT !.w_lru = w_lru, !.w_lfu = FSub(FOne, w_lru)]

Renormalize(self, w_lfu, w_lru) ==
  SetWeights(self, FDiv(w_lru, FAdd(w_lru, w_lfu)))

\* update_weight raising the weight of the arm whose history holds the key
update_weight_SameArm(self, key) ==
  IF ListContains(self.history_lru, key)
  THEN Renormalize(self, self.w_lfu, FMul(self.w_lru, FExpLearningRate))
  ELSE IF ListContains(self.history_lfu, key)
  THEN Renormalize(self, FMul(self.w_lfu, FExpLearningRate), self.w_lru)
  ELSE Renormalize(self, self.w_lfu, self.w_lru)

\* the instance after update_weight(key)
update_weight(self, key) ==
  IF ListContains(self.history_lru, key)
  THEN Renormalize(self, FMul(self.w_lfu, FExpLearningRate), self.w_lru)
  ELSE IF ListContains(self.history_lfu, key)
  THEN Renormalize(self, self.w_lfu, FMul(self.w_lru, FExpLearningRate))
  ELSE Renormalize(self, self.w_lfu, self.w_lru)

\* The arms select_policy_and_history can return: one arm when the weights
\* differ, either arm (random.choice) when they are equal.
select_policy_and_history(self) ==
  IF FLess(self.w_lfu, self.w_lru) THEN {"LRU"}
  ELSE IF FLess(self.w_lru, self.w_lfu) THEN {"LFU"}
  ELSE {"LRU", "LFU"}

\* HistoryPush with the cap tested as len(history) > budget
HistoryPush_LateCap(history, budget, maybe_evicted) ==
  IF Truthy(maybe_evicted)
  THEN ListInsertHead(IF Len(history) > budget THEN ListPop(history)
                      ELSE history,
                      maybe_evicted)
  ELSE history

\* if maybe_evicted: make room in the history, then put it at the head
HistoryPush(history, budget, maybe_evicted) ==
  IF Truthy(maybe_evicted)
  THEN ListInsertHead(IF Len(history) >= budget THEN ListPop(history)
                      ELSE history,
                      maybe_evicted)
  ELSE history

\* the value access hands back on the miss path, given what the arm returned
MissReturn(maybe_evicted) == None

\* the outcome of an access that went to the frequency arm: s1 is the
\* instance before the arm's call, r the outcome of lfu_policy.access(key)
ViaLFU(s1, r, hit, history_lfu, ret) ==
  [self |-> [s1 EXCEPT !.lfu_policy = r.self, !.history_lfu = history_lfu],
   ret |-> ret, hit |-> hit, arm |-> "LFU", arm_ret |-> r.ret]

\* the same for the recency arm
ViaLRU(s1, r, hit, history_lru, ret) ==
  [self |-> [s1 EXCEPT !.lru_policy = r.self, !.history_lru = history_lru],
   ret |-> ret, hit |-> hit, arm |-> "LRU", arm_ret |-> r.ret]

\* the hit path: the frequency arm if it holds the key, else the recency
\* arm; what the arm returns is returned
HitLFU(s1, r) == ViaLFU(s1, r, TRUE, s1.history_lfu, r.ret)
HitLRU(s1, r) == ViaLRU(s1, r, TRUE, s1.history_lru, r.ret)

\* LCR_hit without the frequency arm's branch
LCR_hit_AlwaysLRU(s1, key) == HitLRU(s1, LRU_access(s1.lru_policy, key))

LCR_hit(s1, key) ==
  IF LFU_contains(s1.lfu_policy, key)
  THEN HitLFU(s1, LFU_access(s1.lfu_policy, key))
  ELSE HitLRU(s1, LRU_access(s1.lru_policy, key))

\* the miss path after update_weight: the arm's access, then its history
MissLFU(s1, r) ==
  ViaLFU(s1, r, FALSE, HistoryPush(s1.history_lfu, s1.budget, r.ret),
         MissReturn(r.ret))
MissLRU(s1, r) ==
  ViaLRU(s1, r, FALSE, HistoryPush(s1.history_lru, s1.budget, r.ret),
         MissReturn(r.ret))

Delegate(s1, key, arm) ==
  IF arm = "LRU"
  THEN MissLRU(s1, LRU_access(s1.lru_policy, key))
  ELSE MissLFU(s1, LFU_access(s1.lfu_policy, key))

\* one outcome per arm select_policy_and_history can return
Selected(s1, key) ==
  {Delegate(s1, key, arm) : arm \in select_policy_and_history(s1)}

\* LCR_miss with select_policy_and_history called before update_weight
LCR_miss_SelectFirst(s0, key) ==
  {Delegate(update_weight(s0, key), key, arm) :
     arm \in select_policy_and_history(s0)}

LCR_miss(s0, key) == Selected(update_weight(s0, key), key)

\* LCR_entered calling update_weight on a hit as well
LCR_entered_UpdateOnHit(s0, key, hit) ==
  IF hit THEN {LCR_hit(update_weight([s0 EXCEPT !.hits = @ + 1], key), key)}
  ELSE LCR_miss(s0, key)

LCR_entered(s0, key, hit) ==
  IF hit THEN {LCR_hit([s0 EXCEPT !.hits = @ + 1], key)}
  ELSE LCR_miss(s0, key)

\* The outcomes of access(key), one per result of random.choice where it is
\* called: [self |-> the instance after the call, ret |-> the returned value,
\* hit |-> the path taken, arm |-> the arm whose access was called,
\* arm_ret |-> what that call returned]
LCR_access(self, key) ==
  LCR_entered([self EXCEPT !.accesses = @ + 1], key, LCR_contains(self, key))

\* ------------------------------------------------------------------------
\* The state machine
\* ------------------------------------------------------------------------
VARIABLES
  lfu,          \* the LFU instance
  lru,          \* the LRU instance
  lcr,          \* the LCR instance
  alive,        \* the classes whose instance has been constructed
  call,         \* the last call made and its outcome
  vector_pos,   \* entries of LCRTest.test_vector replayed so far on the
                \* instance, -1 once its accesses have left the vector
  vector_rets,  \* the values those accesses returned
  last_use      \* per key, the number of the last lru.access call on it
                \* (0: never accessed)

vars == <<lfu, lru, lcr, alive, call, vector_pos, vector_rets, last_use>>

\* bounds of the exploration
MaxBudget == 3
MaxAccesses == 6

\* keys the callers pass: strings, the empty string among them
Keys == {"", "a", "b", "c"}

\* budget arguments of a constructor call: none (the default applies) or one
BudgetArgs == {<<>>} \cup {<<b>> : b \in (-1)..MaxBudget}

\* def __init__(self, budget=0)
BudgetOf(args) == IF args = <<>> THEN 0 ELSE args[1]

\* LCRTest.setUp: (key, expected eviction)
test_vector ==
  << [key |-> "a", expected |-> None], [key |-> "b", expected |-> None],
     [key |-> "a", expected |-> None], [key |-> "c", expected |-> "b"] >>

\* the fields of an instance that was not constructed hold nothing
NoCall ==
  [op |-> "", cls |-> "", key |-> None, budget |-> 0, ret |-> None,
   raised |-> None, hit |-> FALSE, arm |-> None, arm_ret |-> None]

InitCall(cls, budget, ok) ==
  [NoCall EXCEPT !.op = "__init__", !.cls = cls, !.budget = budget,
                 !.raised = IF ok THEN None ELSE "AssertionError"]

AccessCall(cls, key, ret, hit, arm, arm_ret) ==
  [NoCall EXCEPT !.op = "access", !.cls = cls, !.key = key, !.ret = ret,
                 !.hit = hit, !.arm = arm, !.arm_ret = arm_ret]

Init ==
  /\ lfu = LFU_init(0).self
  /\ lru = LRU_init(0).self
  /\ lcr = LCR_init(0).self
  /\ alive = {}
  /\ call = NoCall
  /\ vector_pos = 0
  /\ vector_rets = <<>>
  /\ last_use = [k \in Keys |-> 0]

\* the replay of test_vector: the next entry, or off the vector
Replay(key, ret) ==
  IF vector_pos >= 0 /\ vector_pos < Len(test_vector)
     /\ test_vector[vector_pos + 1].key = key
  THEN /\ vector_pos' = vector_pos + 1
       /\ vector_rets' = Append(vector_rets, ret)
  ELSE /\ vector_pos' = -1
       /\ vector_rets' = <<>>

\* LFU(budget) / LFU()
NewLFU(args) ==
  /\ alive = {}
  /\ LET r == LFU_init(BudgetOf(args))
     IN  /\ call' = InitCall("LFU", BudgetOf(args), r.ok)
         /\ IF r.ok THEN lfu' = r.self /\ alive' = {"LFU"}
            ELSE UNCHANGED <<lfu, alive>>
  /\ vector_pos' = 0
  /\ vector_rets' = <<>>
  /\ UNCHANGED <<lru, lcr, last_use>>

NewLRU(args) ==
  /\ alive = {}
  /\ LET r == LRU_init(BudgetOf(args))
     IN  /\ call' = InitCall("LRU", BudgetOf(args), r.ok)
         /\ IF r.ok THEN lru' = r.self /\ alive' = {"LRU"}
            ELSE UNCHANGED <<lru, alive>>
  /\ vector_pos' = 0
  /\ vector_rets' = <<>>
  /\ UNCHANGED <<lfu, lcr, last_use>>

NewLCR(args) ==
  /\ alive = {}
  /\ LET r == LCR_init(BudgetOf(args))
     IN  /\ call' = InitCall("LCR", BudgetOf(args), r.ok)
         /\ IF r.ok THEN lcr' = r.self /\ alive' = {"LCR"}
            ELSE UNCHANGED <<lcr, alive>>
  /\ vector_pos' = 0
  /\ vector_rets' = <<>>
  /\ UNCHANGED <<lfu, lru, last_use>>

\* lfu.access(key)
AccessLFU(key) ==
  /\ "LFU" \in alive
  /\ lfu.accesses < MaxAccesses
  /\ LET r == LFU_access(lfu, key)
     IN  /\ lfu' = r.self
         /\ call' = AccessCall("LFU", key, r.ret, LFU_contains(lfu, key),
                               None, None)
         /\ Replay(key, r.ret)
  /\ UNCHANGED <<lru, lcr, alive, last_use>>

\* lru.access(key)
AccessLRU(key) ==
  /\ "LRU" \in alive
  /\ lru.accesses < MaxAccesses
  /\ LET r == LRU_access(lru, key)
     IN  /\ lru' = r.self
         /\ call' = AccessCall("LRU", key, r.ret, LRU_contains(lru, key),
                               None, None)
         /\ Replay(key, r.ret)
  /\ last_use' = [last_use EXCEPT ![key] = lru.accesses + 1]
  /\ UNCHANGED <<lfu, lcr, alive>>

\* lcr.access(key)
AccessLCR(key) ==
  /\ "LCR" \in alive
  /\ lcr.accesses < MaxAccesses
  /\ \E r \in LCR_access(lcr, key) :
         /\ lcr' = r.self
         /\ call' = AccessCall("LCR", key, r.ret, r.hit, r.arm, r.arm_ret)
         /\ Replay(key, r.ret)
  /\ UNCHANGED <<lfu, lru, alive, last_use>>

Next ==
  \/ \E args \in BudgetArgs : NewLFU(args)
  \/ \E args \in BudgetArgs : NewLRU(args)
  \/ \E args \in BudgetArgs : NewLCR(args)
  \/ \E key \in Keys : AccessLFU(key)
  \/ \E key \in Keys : AccessLRU(key)
  \/ \E key \in Keys : AccessLCR(key)

Spec == Init /\ [][Next]_vars

\* ------------------------------------------------------------------------
\* LCRTest.test_lcr_on_worst_case_lfu: ['1'] * 3 + ['a', 'b', 'c'] * 50 fed
\* to a fresh LFU, LRU and LCR of budget 3, one value per loop iteration
\* ------------------------------------------------------------------------
WorstCaseLFUBudget == 3
WorstCaseLFURepeats == 50

WorstCaseLFUVector ==
  [i \in 1..(3 + 3 * WorstCaseLFURepeats) |->
     IF i <= 3 THEN "1" ELSE <<"a", "b", "c">>[((i - 4) % 3) + 1]]

InitWorstCaseLFU ==
  /\ lfu = LFU_init(WorstCaseLFUBudget).self
  /\ lru = LRU_init(WorstCaseLFUBudget).self
  /\ lcr = LCR_init(WorstCaseLFUBudget).self
  /\ alive = {"LFU", "LRU", "LCR"}
  /\ call = NoCall
  /\ vector_pos = -1
  /\ vector_rets = <<>>
  /\ last_use = [k \in Keys |-> 0]

\* for val in test_vector: lfu.access(val); lru.access(val); lcr.access(val)
StepWorstCaseLFU ==
  /\ lcr.accesses < Len(WorstCaseLFUVector)
  /\ LET val == WorstCaseLFUVector[lcr.accesses + 1]
     IN  /\ lfu' = LFU_access(lfu, val).self
         /\ lru' = LRU_access(lru, val).self
         /\ \E r \in LCR_access(lcr, val) :
               /\ lcr' = r.self
               /\ call' = AccessCall("LCR", val, r.ret, r.hit, r.arm, r.arm_ret)
  /\ UNCHANGED <<alive, vector_pos, vector_rets, last_use>>

SpecWorstCaseLFU == InitWorstCaseLFU /\ [][StepWorstCaseLFU]_vars

\* ------------------------------------------------------------------------
\* LCRTest.test_lcr_on_worst_case_lru: the seesaw
\* ["a"] * 10 + ['b', 'c', 'd'] + ["a"] * 3 + ['b', 'c', 'd'] fed to a fresh
\* LRU and LCR of budget 3
\* ------------------------------------------------------------------------
WorstCaseLRUBudget == 3

WorstCaseLRUVector ==
  [i \in 1..10 |-> "a"] \o <<"b", "c", "d">> \o [i \in 1..3 |-> "a"]
    \o <<"b", "c", "d">>

InitWorstCaseLRU ==
  /\ lfu = LFU_init(0).self
  /\ lru = LRU_init(WorstCaseLRUBudget).self
  /\ lcr = LCR_init(WorstCaseLRUBudget).self
  /\ alive = {"LRU", "LCR"}
  /\ call = NoCall
  /\ vector_pos = -1
  /\ vector_rets = <<>>
  /\ last_use = [k \in Keys |-> 0]

\* for val in test_vector: lru.access(val); lcr.access(val)
StepWorstCaseLRU ==
  /\ lcr.accesses < Len(WorstCaseLRUVector)
  /\ LET val == WorstCaseLRUVector[lcr.accesses + 1]
     IN  /\ lru' = LRU_access(lru, val).self
         /\ \E r \in LCR_access(lcr, val) :
               /\ lcr' = r.self
               /\ call' = AccessCall("LCR", val, r.ret, r.hit, r.arm, r.arm_ret)
  /\ UNCHANGED <<lfu, alive, vector_pos, vector_rets, last_use>>

SpecWorstCaseLRU == InitWorstCaseLRU /\ [][StepWorstCaseLRU]_vars

\* ------------------------------------------------------------------------
\* A run of recency regret: an LCR of budget 1 fed k, y, k and then z, x, k
\* over and over.  When the first two misses go to the frequency arm, k is
\* the only key history_lfu ever holds, every later miss goes to the recency
\* arm, and each miss on k finds it in history_lfu and not in history_lru.
\* ------------------------------------------------------------------------
RegretBudget == 1
RegretRepeats == 82

RegretVector ==
  <<"k", "y", "k">> \o
    [i \in 1..(3 * RegretRepeats) |-> <<"z", "x", "k">>[((i - 1) % 3) + 1]]

InitRegret ==
  /\ lfu = LFU_init(0).self
  /\ lru = LRU_init(0).self
  /\ lcr = LCR_init(RegretBudget).self
  /\ alive = {"LCR"}
  /\ call = NoCall
  /\ vector_pos = -1
  /\ vector_rets = <<>>
  /\ last_use = [k \in Keys |-> 0]

\* for val in RegretVector: lcr.access(val)
StepRegret ==
  /\ lcr.accesses < Len(RegretVector)
  /\ LET val == RegretVector[lcr.accesses + 1]
     IN  \E r \in LCR_access(lcr, val) :
            /\ lcr' = r.self
            /\ call' = AccessCall("LCR", val, r.ret, r.hit, r.arm, r.arm_ret)
  /\ UNCHANGED <<lfu, lru, alive, vector_pos, vector_rets, last_use>>

SpecRegret == InitRegret /\ [][StepRegret]_vars

\* ------------------------------------------------------------------------
\* Properties
\* ------------------------------------------------------------------------
\* the keys present in the LCR: in the frequency table or the recency list
LCRPresent == {k \in Keys : LCR_contains(lcr, k)}

\* C1: LCR.access(key) returns exactly what the arm's access it delegated
\* to returned: the evicted key when that arm evicted one, none otherwise.
C1_ReturnMirrorsArm ==
  (call.op = "access" /\ call.cls = "LCR") => call.ret = call.arm_ret

\* C2: the number of distinct keys present in an LCR (in either arm) never
\* exceeds its budget.
C2_PresentWithinBudget ==
  "LCR" \in alive => Cardinality(LCRPresent) <= lcr.budget

\* C3: after every access the LFU frequency table, the LRU recency list
\* (standalone and as arms of an LCR) and both LCR eviction histories each
\* hold at most budget entries.
C3_StructuresBounded ==
  /\ "LFU" \in alive => Len(lfu.frequency_counter) <= lfu.budget
  /\ "LRU" \in alive => Len(lru.recency_list) <= lru.budget
  /\ "LCR" \in alive =>
       /\ Len(lcr.lfu_policy.frequency_counter) <= lcr.budget
       /\ Len(lcr.lru_policy.recency_list) <= lcr.budget
       /\ Len(lcr.history_lfu) <= lcr.budget
       /\ Len(lcr.history_lru) <= lcr.budget

\* an LCR whose recency arm and recency history are both full, right after
\* an eviction was recorded
C3_Witness ==
  /\ "LCR" \in alive
  /\ call.op = "access" /\ call.arm = "LRU" /\ call.arm_ret # None
  /\ Len(lcr.lru_policy.recency_list) = lcr.budget
  /\ Len(lcr.history_lru) = lcr.budget
  /\ lcr.budget >= 2

\* C4: hitrate read on a policy that was never accessed is 0.0 and raises
\* nothing; after an access it is hits * 100 / accesses.
HitrateAsClaimed(self) ==
  IF self.accesses = 0
  THEN [raised |-> None, value |-> FZero]
  ELSE [raised |-> None,
        value  |-> FDiv(FMul(FromInt(self.hits), FromInt(100)),
                        FromInt(self.accesses))]

C4_HitrateDefined ==
  /\ "LFU" \in alive => hitrate(lfu) = HitrateAsClaimed(lfu)
  /\ "LRU" \in alive => hitrate(lru) = HitrateAsClaimed(lru)
  /\ "LCR" \in alive => hitrate(lcr) = HitrateAsClaimed(lcr)

\* C5: a constructor called with budget <= 0 (the default 0 included) raises
\* and leaves no instance; every instance has budget > 0, and both arms of
\* an LCR have the budget of the LCR.
C5_BudgetPositive ==
  /\ (call.op = "__init__" /\ call.budget <= 0) =>
       (call.raised = "AssertionError" /\ alive = {})
  /\ (call.op = "__init__" /\ call.budget > 0) =>
       (call.raised = None /\ alive = {call.cls})
  /\ "LFU" \in alive => lfu.budget > 0
  /\ "LRU" \in alive => lru.budget > 0
  /\ "LCR" \in alive =>
       /\ lcr.budget > 0
       /\ lcr.lfu_policy.budget = lcr.budget
       /\ lcr.lru_policy.budget = lcr.budget

\* LCR() with no argument has just failed
C5_Witness ==
  /\ call.op = "__init__" /\ call.cls = "LCR" /\ call.budget = 0
  /\ call.raised = "AssertionError"
  /\ alive = {}

\* C6: every access call raises that policy's accesses by exactly 1 and its
\* hits by 1 if the key was present before the call and by 0 otherwise, so
\* 0 <= hits <= accesses in every reachable state.
InTable(fc, key) == \E i \in 1..Len(fc) : fc[i].key = key /\ fc[i].count > 0
InList(rl, key) == \E i \in 1..Len(rl) : rl[i] = key
OneIf(b) == IF b THEN 1 ELSE 0

Counted(before, after, present) ==
  /\ after.accesses = before.accesses + 1
  /\ after.hits = before.hits + OneIf(present)

HitsWithinAccesses(self) == 0 <= self.hits /\ self.hits <= self.accesses

C6_CountersOrdered ==
  /\ "LFU" \in alive => HitsWithinAccesses(lfu)
  /\ "LRU" \in alive => HitsWithinAccesses(lru)
  /\ "LCR" \in alive =>
       /\ HitsWithinAccesses(lcr)
       /\ HitsWithinAccesses(lcr.lfu_policy)
       /\ HitsWithinAccesses(lcr.lru_policy)

C6_Step ==
  call'.op = "access" =>
    /\ call'.cls = "LFU" =>
         Counted(lfu, lfu', InTable(lfu.frequency_counter, call'.key))
    /\ call'.cls = "LRU" =>
         Counted(lru, lru', InList(lru.recency_list, call'.key))
    /\ call'.cls = "LCR" =>
         /\ Counted(lcr, lcr',
                    \/ InTable(lcr.lfu_policy.frequency_counter, call'.key)
                    \/ InList(lcr.lru_policy.recency_list, call'.key))
         /\ call'.arm = "LFU" =>
              Counted(lcr.lfu_policy, lcr'.lfu_policy,
                      InTable(lcr.lfu_policy.frequency_counter, call'.key))
         /\ call'.arm = "LRU" =>
              Counted(lcr.lru_policy, lcr'.lru_policy,
                      InList(lcr.lru_policy.recency_list, call'.key))

C6_Counters == []C6_CountersOrdered /\ [][C6_Step]_vars

\* an LCR hit after at least one miss
C6_Witness ==
  /\ "LCR" \in alive
  /\ call.op = "access" /\ call.hit
  /\ lcr.hits >= 1 /\ lcr.hits < lcr.accesses

\* C7: LFU.access(key) evicts iff, with key's count incremented, the table
\* holds more than budget keys; the evicted key has the minimum count and,
\* among the keys tied at the minimum, was inserted earliest; it is removed
\* and returned, otherwise none is returned.  On [a, b, a, c] with budget 2
\* the returned values are [none, none, none, b].
TablePos(fc, key) ==
  IF \E i \in 1..Len(fc) : fc[i].key = key
  THEN CHOOSE i \in 1..Len(fc) : fc[i].key = key
  ELSE Len(fc) + 1

TableCount(fc, key) ==
  IF \E i \in 1..Len(fc) : fc[i].key = key
  THEN fc[CHOOSE i \in 1..Len(fc) : fc[i].key = key].count
  ELSE 0

\* fc2 holds exactly the keys of ks, in the order they had in fc (a key new
\* to fc last), key's count one higher and the other counts as in fc
TableKept(fc, fc2, key, ks) ==
  /\ Len(fc2) = Cardinality(ks)
  /\ {fc2[i].key : i \in 1..Len(fc2)} = ks
  /\ \A i \in 1..Len(fc2) :
       fc2[i].count = TableCount(fc, fc2[i].key) + OneIf(fc2[i].key = key)
  /\ \A i, j \in 1..Len(fc2) :
       i < j => TablePos(fc, fc2[i].key) < TablePos(fc, fc2[j].key)

LFUAccessAsClaimed(fc, fc2, budget, key, ret) ==
  LET ks     == {fc[i].key : i \in 1..Len(fc)} \cup {key}
      cnt(k) == TableCount(fc, k) + OneIf(k = key)
  IN  IF Cardinality(ks) > budget
      THEN /\ ret \in ks
           /\ \A k \in ks \ {ret} :
                \/ cnt(ret) < cnt(k)
                \/ cnt(ret) = cnt(k) /\ TablePos(fc, ret) < TablePos(fc, k)
           /\ TableKept(fc, fc2, key, ks \ {ret})
      ELSE /\ ret = None
           /\ TableKept(fc, fc2, key, ks)

C7_Step ==
  call'.op = "access" =>
    /\ call'.cls = "LFU" =>
         LFUAccessAsClaimed(lfu.frequency_counter, lfu'.frequency_counter,
                            lfu.budget, call'.key, call'.ret)
    /\ (call'.cls = "LCR" /\ call'.arm = "LFU") =>
         LFUAccessAsClaimed(lcr.lfu_policy.frequency_counter,
                            lcr'.lfu_policy.frequency_counter,
                            lcr.lfu_policy.budget, call'.key, call'.arm_ret)

C7_Vector ==
  ("LFU" \in alive /\ lfu.budget = 2 /\ vector_pos = Len(test_vector)) =>
    vector_rets = <<None, None, None, "b">>

C7_LFUEviction == []C7_Vector /\ [][C7_Step]_vars

\* test_vector replayed on an LFU of budget 2: its last access evicts "b",
\* tied with "c" at count 1 and inserted before it
C7_Witness ==
  /\ "LFU" \in alive /\ lfu.budget = 2
  /\ vector_pos = Len(test_vector)
  /\ call.ret = "b"

\* C8: LRU.access(key) moves key to the head (inserting it if absent) and
\* evicts iff the list then exceeds budget, removing and returning the tail,
\* the resident key accessed longest ago; otherwise it returns none.  The
\* list holds no duplicate and the other keys keep their order.  On
\* [a, b, a, c] with budget 2 the returned values are [none, none, none, b].
ListPos(rl, key) == CHOOSE i \in 1..Len(rl) : rl[i] = key

NoDuplicates(rl) == \A i, j \in 1..Len(rl) : rl[i] = rl[j] => i = j

\* rl2 holds exactly the keys of ks, key first, the others ordered as in rl
ListKept(rl, rl2, key, ks) ==
  /\ NoDuplicates(rl2)
  /\ {rl2[i] : i \in 1..Len(rl2)} = ks
  /\ rl2[1] = key
  /\ \A i, j \in 2..Len(rl2) :
       i < j => ListPos(rl, rl2[i]) < ListPos(rl, rl2[j])

LRUAccessAsClaimed(rl, rl2, budget, key, ret) ==
  LET ks == {rl[i] : i \in 1..Len(rl)} \cup {key}
  IN  IF Cardinality(ks) > budget
      THEN /\ ret = rl[Len(rl)]
           /\ ret # key
           /\ ListKept(rl, rl2, key, ks \ {ret})
      ELSE /\ ret = None
           /\ ListKept(rl, rl2, key, ks)

\* the evicted key is the one, among the keys that were resident, whose
\* last access is the oldest
OldestEvicted(rl, key, ret) ==
  ret # None =>
    \A k \in {rl[i] : i \in 1..Len(rl)} \ {ret, key} :
      last_use[ret] < last_use[k]

C8_Step ==
  call'.op = "access" =>
    /\ call'.cls = "LRU" =>
         /\ LRUAccessAsClaimed(lru.recency_list, lru'.recency_list,
                               lru.budget, call'.key, call'.ret)
         /\ OldestEvicted(lru.recency_list, call'.key, call'.ret)
    /\ (call'.cls = "LCR" /\ call'.arm = "LRU") =>
         LRUAccessAsClaimed(lcr.lru_policy.recency_list,
                            lcr'.lru_policy.recency_list,
                            lcr.lru_policy.budget, call'.key, call'.arm_ret)

C8_Vector ==
  ("LRU" \in alive /\ lru.budget = 2 /\ vector_pos = Len(test_vector)) =>
    vector_rets = <<None, None, None, "b">>

C8_NoDuplicates ==
  /\ "LRU" \in alive => NoDuplicates(lru.recency_list)
  /\ "LCR" \in alive => NoDuplicates(lcr.lru_policy.recency_list)

C8_LRUEviction == [](C8_Vector /\ C8_NoDuplicates) /\ [][C8_Step]_vars

\* test_vector replayed on an LRU of budget 2: "a" was moved to the head by
\* its second access, so the last access evicts "b"
C8_Witness ==
  /\ "LRU" \in alive /\ lru.budget = 2
  /\ vector_pos = Len(test_vector)
  /\ call.ret = "b"
  /\ lru.recency_list = <<"c", "a">>

\* C9: at the end of ['1'] * 3 + ['a', 'b', 'c'] * 50 with budget 3, the
\* hitrate of the LCR is at least the hitrate of the LRU fed the same trace,
\* whatever random.choice returned.
C9_LCRNotBelowLRU ==
  lcr.accesses = Len(WorstCaseLFUVector) =>
    FLeq(hitrate(lru).value, hitrate(lcr).value)

\* C10: at the end of the seesaw trace with budget 3 the hitrate of the LRU
\* is below 60 and the hitrate of the LCR is strictly above the LRU's,
\* whatever random.choice returned.
C10_SeesawLCRBeatsLRU ==
  lcr.accesses = Len(WorstCaseLRUVector) =>
    /\ FLess(hitrate(lru).value, FromInt(60))
    /\ FLess(hitrate(lru).value, hitrate(lcr).value)

\* the end of the seesaw with the LCR at its fewest hits: every key went to
\* one arm, and the key that arm evicted came back
C10_Witness ==
  /\ lcr.accesses = Len(WorstCaseLRUVector)
  /\ lru.hits = 11
  /\ lcr.hits = 14
  /\ Len(lcr.history_lru) = 1

\* C11: at the end of ['1'] * 3 + ['a', 'b', 'c'] * 50 with budget 3, the
\* hitrate of the LCR is strictly above the hitrate of the LFU fed the same
\* trace, whatever random.choice returned.
C11_LCRBeatsLFU ==
  lcr.accesses = Len(WorstCaseLFUVector) =>
    /\ hitrate(lfu).raised = None /\ hitrate(lcr).raised = None
    /\ FLess(hitrate(lfu).value, hitrate(lcr).value)

\* the end of the trace with the LCR at its fewest hits (every tie went to
\* the frequency arm) and the LFU with only its two hits on '1'
C11_Witness ==
  /\ lcr.accesses = Len(WorstCaseLFUVector)
  /\ lfu.accesses = Len(WorstCaseLFUVector)
  /\ lfu.hits = 2
  /\ lcr.hits = 148

\* C12: at the end of ['1', '1', '1'] + ['a', 'b', 'c'] * 50 with budget 3
\* the hitrate of a fresh LFU is at most 50 (hits * 100 <= 50 * accesses)
\* and the hitrate of a fresh LRU fed the same trace is at least 95.
C12_LFULowLRUHigh ==
  lfu.accesses = Len(WorstCaseLFUVector) =>
    /\ FLeq(hitrate(lfu).value, FromInt(50))
    /\ lfu.hits * 100 <= 50 * lfu.accesses
    /\ lru.accesses = lfu.accesses
    /\ FLeq(FromInt(95), hitrate(lru).value)
    /\ lru.hits * 100 >= 95 * lru.accesses

\* the end of the trace: the LFU never evicted '1' and missed every later
\* access, the LRU missed only the first access of each key
C12_Witness ==
  /\ lfu.accesses = Len(WorstCaseLFUVector)
  /\ CounterGet(lfu.frequency_counter, "1") = 3
  /\ lfu.hits = 2
  /\ lru.hits = 149
  /\ ~LRU_contains(lru, "1")

\* C13: in every LCR state the weights start at 0.5 each, both lie in
\* [0, 1], and w_lfu + w_lru is 1.0 within floating tolerance.
WeightTolerance == [neg |-> FALSE, m |-> <<0, 0, 0, 128>>, e |-> -82]

FAbs(a) == [a EXCEPT !.neg = FALSE]

InUnitInterval(w) == FLeq(FZero, w) /\ FLeq(w, FOne)

SumsToOne(w_lfu, w_lru) ==
  FLeq(FAbs(FSub(FAdd(w_lfu, w_lru), FOne)), WeightTolerance)

C13_WeightsNormalized ==
  "LCR" \in alive =>
    /\ InUnitInterval(lcr.w_lfu)
    /\ InUnitInterval(lcr.w_lru)
    /\ SumsToOne(lcr.w_lfu, lcr.w_lru)
    /\ lcr.accesses = 0 => (lcr.w_lfu = FHalf /\ lcr.w_lru = FHalf)

\* an LCR whose last access was a miss on a key of history_lfu that was
\* boosted past a weight of 0.5: w_lfu = 1 - w_lru is below 0.5
C13_Witness ==
  /\ "LCR" \in alive
  /\ call.op = "access" /\ ~call.hit
  /\ ListContains(lcr.history_lfu, call.key)
  /\ FLess(lcr.w_lfu, FHalf)
  /\ FLess(FHalf, lcr.w_lru)

\* C14: on an LCR miss at most one weight is boosted: w_lfu if the key is in
\* history_lru (also when it is in history_lfu too), else w_lru if the key
\* is in history_lfu; the boost strictly raises the boosted weight's share
\* relative to the other.  A key in neither history boosts nothing and the
\* weights after the call equal the weights before it.
\* The exact value a.m * 2^a.e * b.m * 2^b.e of a product of two floats >= 0
ExactProduct(a, b) == [m |-> BMul(a.m, b.m), e |-> a.e + b.e]

\* p < q for exact values >= 0
ExactLess(p, q) ==
  IF q.m = <<>> THEN FALSE
  ELSE IF p.m = <<>> THEN TRUE
  ELSE LET lo == IF p.e < q.e THEN p.e ELSE q.e
       IN  BCmp(BShl(p.m, p.e - lo), BShl(q.m, q.e - lo)) = -1

\* boosted1 / other1 > boosted0 / other0, compared without rounding
ShareRaised(boosted0, other0, boosted1, other1) ==
  ExactLess(ExactProduct(boosted0, other1), ExactProduct(boosted1, other0))

C14_Step ==
  (call'.op = "access" /\ call'.cls = "LCR" /\ ~call'.hit) =>
    IF ListContains(lcr.history_lru, call'.key)
    THEN ShareRaised(lcr.w_lfu, lcr.w_lru, lcr'.w_lfu, lcr'.w_lru)
    ELSE IF ListContains(lcr.history_lfu, call'.key)
    THEN ShareRaised(lcr.w_lru, lcr.w_lfu, lcr'.w_lru, lcr'.w_lfu)
    ELSE lcr'.w_lfu = lcr.w_lfu /\ lcr'.w_lru = lcr.w_lru

C14_BoostPriority == [][C14_Step]_vars

\* C15: on an LCR miss the arm that receives access(key) follows the weights
\* as they are after the call's own weight update: the recency arm if
\* w_lru > w_lfu, the frequency arm if w_lfu > w_lru, either arm only when
\* they are equal.  So with equal weights before the call, a key found in
\* history_lru goes to the frequency arm and a key found only in history_lfu
\* goes to the recency arm.
C15_Step ==
  (call'.op = "access" /\ call'.cls = "LCR" /\ ~call'.hit) =>
    /\ FLess(lcr'.w_lfu, lcr'.w_lru) => call'.arm = "LRU"
    /\ FLess(lcr'.w_lru, lcr'.w_lfu) => call'.arm = "LFU"
    /\ call'.arm \in {"LRU", "LFU"}
    /\ FCmp(lcr.w_lfu, lcr.w_lru) = 0 =>
         /\ ListContains(lcr.history_lru, call'.key) => call'.arm = "LFU"
         /\ (~ListContains(lcr.history_lru, call'.key)
             /\ ListContains(lcr.history_lfu, call'.key)) => call'.arm = "LRU"

C15_ArmFollowsUpdatedWeights == [][C15_Step]_vars

\* the third access of an LCR, a miss on a key of history_lru: the weights
\* were 0.5 each at the call, and the key went to the frequency arm
C15_Witness ==
  /\ "LCR" \in alive
  /\ lcr.accesses = 3
  /\ call.op = "access" /\ ~call.hit
  /\ ListContains(lcr.history_lru, call.key)
  /\ call.arm = "LFU"
  /\ FLess(lcr.w_lru, lcr.w_lfu)

\* C16: on an LCR miss, when the selected arm's access evicts a key e (any
\* string, the empty string included), e becomes the head of that arm's own
\* history, whose oldest entry is dropped first iff it held budget entries;
\* the other arm's history is unchanged, and when the arm evicts nothing
\* both histories are unchanged.
Pushed(history, budget, e) ==
  <<e>> \o (IF Len(history) >= budget
            THEN SubSeq(history, 1, Len(history) - 1)
            ELSE history)

C16_Step ==
  (call'.op = "access" /\ call'.cls = "LCR" /\ ~call'.hit) =>
    /\ (call'.arm = "LRU" /\ call'.arm_ret # None) =>
         /\ lcr'.history_lru = Pushed(lcr.history_lru, lcr.budget, call'.arm_ret)
         /\ lcr'.history_lfu = lcr.history_lfu
    /\ (call'.arm = "LFU" /\ call'.arm_ret # None) =>
         /\ lcr'.history_lfu = Pushed(lcr.history_lfu, lcr.budget, call'.arm_ret)
         /\ lcr'.history_lru = lcr.history_lru
    /\ call'.arm_ret = None =>
         /\ lcr'.history_lru = lcr.history_lru
         /\ lcr'.history_lfu = lcr.history_lfu

C16_HistoryPush == [][C16_Step]_vars

\* C17: on an LCR hit, access(key) goes to the frequency arm if the key is
\* present there and otherwise to the recency arm; the arm evicts nothing,
\* the set of resident keys is unchanged, and the other arm, both weights
\* and both histories are unchanged.
Resident(self) ==
  {self.lfu_policy.frequency_counter[i].key :
     i \in 1..Len(self.lfu_policy.frequency_counter)}
  \cup {self.lru_policy.recency_list[i] :
          i \in 1..Len(self.lru_policy.recency_list)}

C17_Step ==
  (call'.op = "access" /\ call'.cls = "LCR" /\ call'.hit) =>
    /\ call'.arm = IF InTable(lcr.lfu_policy.frequency_counter, call'.key)
                   THEN "LFU" ELSE "LRU"
    /\ call'.arm = "LRU" => InList(lcr.lru_policy.recency_list, call'.key)
    /\ call'.arm_ret = None
    /\ Resident(lcr') = Resident(lcr)
    /\ call'.arm = "LFU" => lcr'.lru_policy = lcr.lru_policy
    /\ call'.arm = "LRU" => lcr'.lfu_policy = lcr.lfu_policy
    /\ lcr'.w_lfu = lcr.w_lfu /\ lcr'.w_lru = lcr.w_lru
    /\ lcr'.history_lfu = lcr.history_lfu
    /\ lcr'.history_lru = lcr.history_lru

C17_HitFrame == [][C17_Step]_vars

\* a hit in the recency arm on a key that its history holds as well (it was
\* evicted and came back), with the frequency arm holding another key
C17_Witness ==
  /\ "LCR" \in alive
  /\ call.op = "access" /\ call.hit /\ call.arm = "LRU"
  /\ ListContains(lcr.history_lru, call.key)
  /\ Len(lcr.lfu_policy.frequency_counter) >= 1
  /\ lcr.w_lfu # lcr.w_lru

\* C18: every LCR.access calls access on exactly one arm, once, and the arm
\* counts a hit exactly when the LCR does; so lcr.accesses is the sum of the
\* arms' accesses and lcr.hits the sum of the arms' hits.
C18_Sums ==
  "LCR" \in alive =>
    /\ lcr.accesses = lcr.lfu_policy.accesses + lcr.lru_policy.accesses
    /\ lcr.hits = lcr.lfu_policy.hits + lcr.lru_policy.hits

C18_Step ==
  (call'.op = "access" /\ call'.cls = "LCR") =>
    /\ call'.arm = "LFU" =>
         /\ lcr'.lfu_policy.accesses = lcr.lfu_policy.accesses + 1
         /\ lcr'.lfu_policy.hits = lcr.lfu_policy.hits + OneIf(call'.hit)
         /\ lcr'.lru_policy = lcr.lru_policy
    /\ call'.arm = "LRU" =>
         /\ lcr'.lru_policy.accesses = lcr.lru_policy.accesses + 1
         /\ lcr'.lru_policy.hits = lcr.lru_policy.hits + OneIf(call'.hit)
         /\ lcr'.lfu_policy = lcr.lfu_policy
    /\ call'.arm \in {"LFU", "LRU"}
    /\ lcr'.accesses = lcr.accesses + 1
    /\ lcr'.hits = lcr.hits + OneIf(call'.hit)

C18_CountersAreSums == []C18_Sums /\ [][C18_Step]_vars

\* an LCR both of whose arms have had a hit and a miss
C18_Witness ==
  /\ "LCR" \in alive
  /\ lcr.lfu_policy.hits >= 1 /\ lcr.lfu_policy.hits < lcr.lfu_policy.accesses
  /\ lcr.lru_policy.hits >= 1 /\ lcr.lru_policy.hits < lcr.lru_policy.accesses

\* C19: no key is ever present in both arms of an LCR at once: the keys of
\* the frequency table and the keys of the recency list are disjoint.
C19_ArmsDisjoint ==
  "LCR" \in alive =>
    \A k \in Resident(lcr) :
      ~(LFU_contains(lcr.lfu_policy, k) /\ LRU_contains(lcr.lru_policy, k))

\* a key that the frequency arm evicted is now resident in the recency arm
\* while the frequency arm holds other keys
C19_Witness ==
  /\ "LCR" \in alive
  /\ Len(lcr.lfu_policy.frequency_counter) >= 1
  /\ \E i \in 1..Len(lcr.lru_policy.recency_list) :
       ListContains(lcr.history_lfu, lcr.lru_policy.recency_list[i])

\* C20: whether the accessed key is resident after its own access.  LRU:
\* after access(key) the key is at the head and the evicted key is never
\* key.  LFU: access(key) with key absent and the table holding budget keys
\* that all have count >= 2 evicts and returns key itself and leaves the
\* table as it was; in every other evicting call the evicted key differs
\* from key and key stays resident with count 1.  LCR: a key the frequency
\* arm evicted on its own access is pushed onto history_lfu and is not
\* present afterwards.
LRUKeepsKey(rl2, key, ret) ==
  /\ Len(rl2) >= 1 /\ rl2[1] = key
  /\ ret # key

SelfEvicting(fc, budget, key) ==
  /\ ~InTable(fc, key)
  /\ Len(fc) = budget
  /\ \A i \in 1..Len(fc) : fc[i].count >= 2

LFUSelfEviction(fc, fc2, budget, key, ret) ==
  IF SelfEvicting(fc, budget, key)
  THEN ret = key /\ fc2 = fc
  ELSE ret # None =>
         /\ ret # key
         /\ TableCount(fc2, key) = 1

C20_Step ==
  call'.op = "access" =>
    /\ call'.cls = "LRU" =>
         LRUKeepsKey(lru'.recency_list, call'.key, call'.ret)
    /\ (call'.cls = "LCR" /\ call'.arm = "LRU") =>
         LRUKeepsKey(lcr'.lru_policy.recency_list, call'.key, call'.arm_ret)
    /\ call'.cls = "LFU" =>
         LFUSelfEviction(lfu.frequency_counter, lfu'.frequency_counter,
                         lfu.budget, call'.key, call'.ret)
    /\ (call'.cls = "LCR" /\ call'.arm = "LFU") =>
         /\ LFUSelfEviction(lcr.lfu_policy.frequency_counter,
                            lcr'.lfu_policy.frequency_counter,
                            lcr.lfu_policy.budget, call'.key, call'.arm_ret)
         /\ SelfEvicting(lcr.lfu_policy.frequency_counter,
                         lcr.lfu_policy.budget, call'.key) =>
              /\ Len(lcr'.history_lfu) >= 1
              /\ lcr'.history_lfu[1] = call'.key
              /\ ~LCR_contains(lcr', call'.key)

C20_ResidentAfterAccess == [][C20_Step]_vars

====
